---- MODULE Spec2Model ----
(***************************************************************************)
(* The ACME provisioner of authority/provisioner/acme.go.                  *)
(*                                                                         *)
(* Strings are sequences of Unicode code points, so that lower-casing      *)
(* (strings.ToLower) and case folding (strings.EqualFold) are computed     *)
(* rune by rune as the Go library computes them.                           *)
(***************************************************************************)
EXTENDS Integers, Sequences, FiniteSets, TLC

VARIABLES p, state, initErr, built, snapshot, res, calls

vars == <<p, state, initErr, built, snapshot, res, calls>>

\* Go's nil (a nil pointer, a nil error, a nil slice of bytes).
Nil == [nil |-> TRUE]

(***************************************************************************)
(* Bounds of the model.                                                    *)
(***************************************************************************)
MaxChallenges == 2
NumProcs == 2

(***************************************************************************)
(* Runes.  The alphabet is ASCII plus the three non-ASCII runes whose      *)
(* simple case mappings touch ASCII letters: U+017F (long s), U+0130       *)
(* (capital I with dot above) and U+212A (Kelvin sign).                    *)
(***************************************************************************)
LongS == 383
DottedI == 304
KelvinK == 8490
RuneSelf == 128

IsUpperASCII(r) == r >= 65 /\ r <= 90
IsLowerASCII(r) == r >= 97 /\ r <= 122

\* unicode.ToLower on the model's alphabet.
ToLowerRune(r) ==
    IF IsUpperASCII(r) THEN r + 32
    ELSE IF r = DottedI THEN 105
    ELSE IF r = KelvinK THEN 107
    ELSE r

\* strings.ToLower: maps unicode.ToLower over the runes.
ToLower(s) == [i \in 1..Len(s) |-> ToLowerRune(s[i])]

\* unicode.SimpleFold: the next rune of the folding orbit, wrapping around.
SimpleFold(r) ==
    IF r = 75 THEN 107
    ELSE IF r = 107 THEN KelvinK
    ELSE IF r = KelvinK THEN 75
    ELSE IF r = 83 THEN 115
    ELSE IF r = 115 THEN LongS
    ELSE IF r = LongS THEN 83
    ELSE IF r = DottedI THEN DottedI
    ELSE IF IsUpperASCII(r) THEN r + 32
    ELSE IF IsLowerASCII(r) THEN r - 32
    ELSE r

\* One rune pair of strings.EqualFold: sr and tr are ordered, the ASCII
\* case is decided by 'A'-'a', the general case walks the folding orbit.
RECURSIVE FoldReaches(_, _, _, _)
FoldReaches(r, sr, tr, fuel) ==
    IF r # sr /\ r < tr /\ fuel > 0
    THEN FoldReaches(SimpleFold(r), sr, tr, fuel - 1)
    ELSE r = tr

RuneEqualFold(a, b) ==
    LET sr == IF b < a THEN b ELSE a
        tr == IF b < a THEN a ELSE b
    IN  IF sr = tr THEN TRUE
        ELSE IF tr < RuneSelf
             THEN IsUpperASCII(sr) /\ tr = sr + 32
             ELSE FoldReaches(SimpleFold(sr), sr, tr, 3)

\* strings.EqualFold
EqualFold(s, t) ==
    /\ Len(s) = Len(t)
    /\ \A i \in 1..Len(s) : RuneEqualFold(s[i], t[i])

(***************************************************************************)
(* ACMEChallenge                                                           *)
(***************************************************************************)
HTTP_01 == <<104, 116, 116, 112, 45, 48, 49>>
DNS_01 == <<100, 110, 115, 45, 48, 49>>
TLS_ALPN_01 == <<116, 108, 115, 45, 97, 108, 112, 110, 45, 48, 49>>
DEVICE_ATTEST_01 ==
    <<100, 101, 118, 105, 99, 101, 45, 97, 116, 116, 101, 115, 116, 45, 48, 49>>

\* ACMEChallenge.String
String(c) == ToLower(c)

UnsupportedChallenge(c) == [msg |-> "acme challenge is not supported", challenge |-> c]

\* Variant: Validate switching on the name as written, not on c.String().
ValidateNoNormalize(c) ==
    IF c \in {HTTP_01, DNS_01, TLS_ALPN_01, DEVICE_ATTEST_01}
    THEN Nil
    ELSE UnsupportedChallenge(c)

\* ACMEChallenge.Validate
Validate(c) ==
    IF String(c) \in {HTTP_01, DNS_01, TLS_ALPN_01, DEVICE_ATTEST_01}
    THEN Nil
    ELSE UnsupportedChallenge(c)

DefaultChallenges == <<HTTP_01, DNS_01, TLS_ALPN_01>>

\* Variant: the configured challenges appended to the defaults.
EnabledChallengesAppendDefaults(q) == DefaultChallenges \o q.Challenges

\* The enabledChallenges local of IsChallengeEnabled.
EnabledChallenges(q) ==
    IF Len(q.Challenges) > 0 THEN q.Challenges ELSE DefaultChallenges

\* ACME.IsChallengeEnabled
IsChallengeEnabled(q, challenge) ==
    \E i \in 1..Len(EnabledChallenges(q)) :
        EqualFold(EnabledChallenges(q)[i], challenge)

Upper(s) == [i \in 1..Len(s) |-> IF IsLowerASCII(s[i]) THEN s[i] - 32 ELSE s[i]]

(***************************************************************************)
(* Inputs: challenge names.  Every kind, its upper-case spelling, and      *)
(* every spelling that differs from it in one rune by case or by a         *)
(* non-ASCII case variant; and names outside the four kinds.               *)
(***************************************************************************)
Kinds == {HTTP_01, DNS_01, TLS_ALPN_01, DEVICE_ATTEST_01}

AltRunes(r) ==
    (IF IsLowerASCII(r) THEN {r - 32} ELSE {})
        \cup (IF r = 115 THEN {LongS} ELSE {})
        \cup (IF r = 105 THEN {DottedI} ELSE {})
        \cup (IF r = 107 THEN {KelvinK} ELSE {})

Variants(s) ==
    {s, Upper(s)}
        \cup UNION {{[s EXCEPT ![i] = a] : a \in AltRunes(s[i])} : i \in 1..Len(s)}

FOO_01 == <<102, 111, 111, 45, 48, 49>>
DNS_02 == <<100, 110, 115, 45, 48, 50>>
LongS_DNS_01 == [DNS_01 EXCEPT ![3] = LongS]
DottedI_DEVICE_ATTEST_01 == [DEVICE_ATTEST_01 EXCEPT ![4] = DottedI]

OtherNames ==
    {<< >>, FOO_01, DNS_02, SubSeq(HTTP_01, 1, 6), HTTP_01 \o <<49>>}

ChallengeInputs == UNION {Variants(k) : k \in Kinds} \cup OtherNames

(***************************************************************************)
(* Collaborators: the global configuration, the claimer, the X.509 policy  *)
(* engine and the controller (authority/provisioner/controller.go).        *)
(***************************************************************************)
Configs ==
    { [min |-> 1, def |-> 2, max |-> 3, disableRenewal |-> FALSE],
      [min |-> 2, def |-> 4, max |-> 6, disableRenewal |-> TRUE] }

\* The *Claims field: nil, or overrides of the global claims.
ClaimsSet == {Nil, [def |-> 3, disableRenewal |-> TRUE]}

IP_Loopback == "ip:127.0.0.1"
IP_Ten == "ip:10.0.0.1"
NilIP == "ip:<nil>"

AllowGate ==
    [allowIPs |-> {IP_Loopback, IP_Ten}, allowDNS |-> {"example.com", "10.0.0.1"}]
DenyDNSGate == [allowIPs |-> {IP_Loopback}, allowDNS |-> {}]
Malformed == [malformed |-> TRUE]

\* The *Options field: nil, or options carrying an X.509 policy.
OptionsSet ==
    {Nil, [policy |-> AllowGate], [policy |-> DenyDNSGate], [policy |-> Malformed]}

PolicyDenied(what) == [msg |-> "not allowed by policy", name |-> what]

\* x509Policy.IsIPAllowed: a nil address is in no allowed range.
IsIPAllowed(gate, ip) ==
    IF ip \in gate.allowIPs THEN Nil ELSE PolicyDenied(ip)

\* x509Policy.IsDNSAllowed
IsDNSAllowed(gate, name) ==
    IF name \in gate.allowDNS THEN Nil ELSE PolicyDenied(name)

\* NewClaimer: the provisioner's claims override the global ones.
NewClaimer(claims, config) ==
    IF claims = Nil
    THEN config
    ELSE [config EXCEPT !.def = claims.def, !.disableRenewal = claims.disableRenewal]

\* NewController: fails on a malformed policy, else holds claimer and policy.
NewController(claims, config, options) ==
    IF options # Nil /\ options.policy = Malformed
    THEN [ctl |-> Nil, err |-> [msg |-> "invalid policy configuration"]]
    ELSE [ctl |-> [Claimer |-> NewClaimer(claims, config),
                   x509 |-> IF options = Nil THEN Nil ELSE options.policy],
          err |-> Nil]

\* p.ctl.getPolicy().getX509()
getX509(q) == q.ctl.x509

(***************************************************************************)
(* ACME.Init                                                               *)
(***************************************************************************)
FirstInvalid(cs) ==
    CHOOSE i \in 1..Len(cs) :
        /\ Validate(cs[i]) # Nil
        /\ \A j \in 1..(i - 1) : Validate(cs[j]) = Nil

\* Variant: Init without the loop over p.Challenges.
InitSkipsChallenges(q, config) ==
    IF q.Type = ""
    THEN [p |-> q, err |-> [msg |-> "provisioner type cannot be empty"], built |-> 0]
    ELSE IF q.Name = ""
    THEN [p |-> q, err |-> [msg |-> "provisioner name cannot be empty"], built |-> 0]
    ELSE LET nc == NewController(q.Claims, config, q.Options)
         IN  [p |-> [q EXCEPT !.ctl = nc.ctl], err |-> nc.err, built |-> 1]

\* The provisioner after Init, the error returned and the number of
\* controllers constructed.
InitCall(q, config) ==
    IF q.Type = ""
    THEN [p |-> q, err |-> [msg |-> "provisioner type cannot be empty"], built |-> 0]
    ELSE IF q.Name = ""
    THEN [p |-> q, err |-> [msg |-> "provisioner name cannot be empty"], built |-> 0]
    ELSE IF \E i \in 1..Len(q.Challenges) : Validate(q.Challenges[i]) # Nil
    THEN [p |-> q, err |-> Validate(q.Challenges[FirstInvalid(q.Challenges)]),
          built |-> 0]
    ELSE LET nc == NewController(q.Claims, config, q.Options)
         IN  [p |-> [q EXCEPT !.ctl = nc.ctl], err |-> nc.err, built |-> 1]

(***************************************************************************)
(* Accessors                                                               *)
(***************************************************************************)
TypeACME == "ACME"

\* ACME.GetIDForToken
GetIDForToken(q) == "acme/" \o q.Name

\* ACME.GetID
GetID(q) == IF q.ID # "" THEN q.ID ELSE GetIDForToken(q)

\* ACME.GetName
GetName(q) == q.Name

\* ACME.GetType
GetType(q) == TypeACME

\* ACME.GetOptions
GetOptions(q) == q.Options

\* ACME.DefaultTLSCertDuration
DefaultTLSCertDuration(q) == q.ctl.Claimer.def

(***************************************************************************)
(* ACME.AuthorizeOrderIdentifier                                           *)
(***************************************************************************)
IP == "ip"
DNS == "dns"

IdentifierTypes == {IP, DNS, "unknown"}
IdentifierValues ==
    {"127.0.0.1", "::ffff:127.0.0.1", "10.0.0.1", "300.0.0.1", "example.com"}
Identifiers == [Type : IdentifierTypes, Value : IdentifierValues]

\* net.ParseIP: the address a text denotes, nil when it denotes none.
ParseIP(v) ==
    IF v \in {"127.0.0.1", "::ffff:127.0.0.1"} THEN IP_Loopback
    ELSE IF v = "10.0.0.1" THEN IP_Ten
    ELSE NilIP

InvalidIdentifierType(t) ==
    [msg |-> "invalid ACME identifier type provided", type |-> t]

\* Variant: the identifier type checked before the policy is looked up.
AuthorizeOrderIdentifierTypeFirst(q, identifier) ==
    IF identifier.Type \notin {IP, DNS} THEN InvalidIdentifierType(identifier.Type)
    ELSE IF getX509(q) = Nil THEN Nil
    ELSE IF identifier.Type = IP
    THEN IsIPAllowed(getX509(q), ParseIP(identifier.Value))
    ELSE IsDNSAllowed(getX509(q), identifier.Value)

\* Variant: no policy configured denies.
AuthorizeOrderIdentifierDenyByDefault(q, identifier) ==
    IF getX509(q) = Nil THEN PolicyDenied(identifier.Value)
    ELSE IF identifier.Type = IP
    THEN IsIPAllowed(getX509(q), ParseIP(identifier.Value))
    ELSE IF identifier.Type = DNS
    THEN IsDNSAllowed(getX509(q), identifier.Value)
    ELSE InvalidIdentifierType(identifier.Type)

\* Variant: the DNS question asked for ip identifiers too.
AuthorizeOrderIdentifierDNSForAll(q, identifier) ==
    IF getX509(q) = Nil THEN Nil
    ELSE IF identifier.Type \in {IP, DNS}
    THEN IsDNSAllowed(getX509(q), identifier.Value)
    ELSE InvalidIdentifierType(identifier.Type)

\* ACME.AuthorizeOrderIdentifier
AuthorizeOrderIdentifier(q, identifier) ==
    IF getX509(q) = Nil THEN Nil
    ELSE IF identifier.Type = IP
    THEN IsIPAllowed(getX509(q), ParseIP(identifier.Value))
    ELSE IF identifier.Type = DNS
    THEN IsDNSAllowed(getX509(q), identifier.Value)
    ELSE InvalidIdentifierType(identifier.Type)

(***************************************************************************)
(* ACME.AuthorizeSign, AuthorizeRevoke, AuthorizeRenew                     *)
(***************************************************************************)
Tokens == {"", "token"}
Certs == {"cert1", "cert2"}

newProvisionerExtensionOption(typ, name, credentialID) ==
    [opt |-> "provisionerExtensionOption", Type |-> typ, Name |-> name,
     CredentialID |-> credentialID]
newForceCNOption(forceCN) == [opt |-> "forceCNOption", ForceCN |-> forceCN]
profileDefaultDuration(d) == [opt |-> "profileDefaultDuration", def |-> d]
defaultPublicKeyValidator == [opt |-> "defaultPublicKeyValidator"]
newValidityValidator(min, max) == [opt |-> "validityValidator", min |-> min, max |-> max]
newX509NamePolicyValidator(engine) ==
    [opt |-> "x509NamePolicyValidator", policyEngine |-> engine]

\* The provisioner itself, as the first SignOption of the chain.
ProvisionerOption(q) == [opt |-> "provisioner", ID |-> GetID(q)]

\* Variant: the validators placed before the modifiers.
AuthorizeSignValidatorsFirst(q, token) ==
    [opts |-> << ProvisionerOption(q),
                 defaultPublicKeyValidator,
                 newValidityValidator(q.ctl.Claimer.min, q.ctl.Claimer.max),
                 newX509NamePolicyValidator(getX509(q)),
                 newProvisionerExtensionOption(TypeACME, q.Name, ""),
                 newForceCNOption(q.ForceCN),
                 profileDefaultDuration(q.ctl.Claimer.def) >>,
     err |-> Nil]

\* Variant: the chain without the provisioner itself.
AuthorizeSignSixOptions(q, token) ==
    [opts |-> << newProvisionerExtensionOption(TypeACME, q.Name, ""),
                 newForceCNOption(q.ForceCN),
                 profileDefaultDuration(q.ctl.Claimer.def),
                 defaultPublicKeyValidator,
                 newValidityValidator(q.ctl.Claimer.min, q.ctl.Claimer.max),
                 newX509NamePolicyValidator(getX509(q)) >>,
     err |-> Nil]

\* ACME.AuthorizeSign
AuthorizeSign(q, token) ==
    [opts |-> << ProvisionerOption(q),
                 newProvisionerExtensionOption(TypeACME, q.Name, ""),
                 newForceCNOption(q.ForceCN),
                 profileDefaultDuration(q.ctl.Claimer.def),
                 defaultPublicKeyValidator,
                 newValidityValidator(q.ctl.Claimer.min, q.ctl.Claimer.max),
                 newX509NamePolicyValidator(getX509(q)) >>,
     err |-> Nil]

\* ACME.AuthorizeRevoke
AuthorizeRevoke(q, token) == Nil

\* Controller.AuthorizeRenew: refuses when renewals are disabled.
ControllerAuthorizeRenew(ctl, cert) ==
    IF ctl.Claimer.disableRenewal
    THEN [msg |-> "renew is disabled", cert |-> cert]
    ELSE Nil

\* ACME.AuthorizeRenew
AuthorizeRenew(q, cert) == ControllerAuthorizeRenew(q.ctl, cert)

(***************************************************************************)
(* A call of a method on the provisioner: the value it returns and the     *)
(* provisioner it leaves.  No method assigns a field: IsChallengeEnabled   *)
(* assigns only its local enabledChallenges.                               *)
(***************************************************************************)
\* Variant: enabledChallenges stored in p.Challenges.
IsChallengeEnabledCallStoresEnabled(q, challenge) ==
    [ret |-> [bool |-> IsChallengeEnabled(q, challenge)],
     p |-> [q EXCEPT !.Challenges = EnabledChallenges(q)]]

\* ACME.IsChallengeEnabled as a call on the receiver.
IsChallengeEnabledCall(q, challenge) ==
    [ret |-> [bool |-> IsChallengeEnabled(q, challenge)], p |-> q]

\* Arguments and returned values are tagged with their Go type: arguments
\* [challenge |-> c], [identifier |-> id], [token |-> t], [cert |-> c] or
\* NoArg; values [bool |-> b], [str |-> s], [dur |-> d], an error or nil,
\* or the pair [opts |-> chain, err |-> error].
NoArg == [noarg |-> TRUE]

Exec(op, arg, q) ==
    CASE op = "Validate" -> [ret |-> Validate(arg.challenge), p |-> q]
      [] op = "IsChallengeEnabled" -> IsChallengeEnabledCall(q, arg.challenge)
      [] op = "AuthorizeOrderIdentifier" ->
            [ret |-> AuthorizeOrderIdentifier(q, arg.identifier), p |-> q]
      [] op = "AuthorizeSign" -> [ret |-> AuthorizeSign(q, arg.token), p |-> q]
      [] op = "AuthorizeRevoke" -> [ret |-> AuthorizeRevoke(q, arg.token), p |-> q]
      [] op = "AuthorizeRenew" -> [ret |-> AuthorizeRenew(q, arg.cert), p |-> q]
      [] op = "GetID" -> [ret |-> [str |-> GetID(q)], p |-> q]
      [] op = "GetName" -> [ret |-> [str |-> GetName(q)], p |-> q]
      [] op = "GetType" -> [ret |-> [str |-> GetType(q)], p |-> q]
      [] op = "GetOptions" -> [ret |-> GetOptions(q), p |-> q]
      [] op = "DefaultTLSCertDuration" ->
            [ret |-> [dur |-> DefaultTLSCertDuration(q)], p |-> q]

(***************************************************************************)
(* The provisioner as loaded from the configuration, before Init.          *)
(***************************************************************************)
Lists(S) == UNION {[1..n -> S] : n \in 0..MaxChallenges}

LoadedChallenges == {Upper(DEVICE_ATTEST_01), FOO_01}

ChallengeLists ==
    Lists({HTTP_01, DEVICE_ATTEST_01, Upper(DNS_01), DottedI_DEVICE_ATTEST_01,
           LongS_DNS_01, FOO_01})

Loaded ==
    [ID : {"", "id-1"}, Type : {"", TypeACME}, Name : {"", "acme"},
     ForceCN : BOOLEAN, RequireEAB : {FALSE}, Challenges : Lists(LoadedChallenges),
     Claims : ClaimsSet, Options : OptionsSet, ctl : {Nil}]

LoadedWithChallenges ==
    [ID : {""}, Type : {TypeACME}, Name : {"acme"},
     ForceCN : {FALSE}, RequireEAB : {FALSE}, Challenges : ChallengeLists,
     Claims : {Nil}, Options : {Nil}, ctl : {Nil}]

LoadedForRequests ==
    [ID : {"id-1"}, Type : {TypeACME}, Name : {"acme"},
     ForceCN : {TRUE}, RequireEAB : {TRUE},
     Challenges : {<< >>, <<DEVICE_ATTEST_01>>},
     Claims : {Nil}, Options : {Nil, [policy |-> DenyDNSGate]}, ctl : {Nil}]

Procs == 1..NumProcs

Idle == [status |-> "idle"]
NoResult == [op |-> "none"]

InitCommon ==
    /\ state = "loaded"
    /\ initErr = Nil
    /\ built = 0
    /\ snapshot = Nil
    /\ res = NoResult
    /\ calls = [i \in Procs |-> Idle]

Init ==
    /\ p \in Loaded \cup LoadedWithChallenges
    /\ InitCommon

\* Init is called once on a loaded provisioner; a provisioner whose Init
\* fails is never served.
DoInit(config) ==
    /\ state = "loaded"
    /\ LET r == InitCall(p, config)
       IN  /\ p' = r.p
           /\ initErr' = r.err
           /\ built' = built + r.built
           /\ state' = IF r.err = Nil THEN "ready" ELSE "failed"
           /\ snapshot' = r.p
    /\ UNCHANGED <<res, calls>>

\* A request handler calls op(arg) on the served provisioner.
Do(op, arg) ==
    /\ p' = Exec(op, arg, p).p
    /\ res' = [op |-> op, arg |-> arg, ret |-> Exec(op, arg, p).ret]
    /\ UNCHANGED <<state, initErr, built, snapshot, calls>>

DoValidate ==
    /\ state = "ready"
    /\ \E c \in ChallengeInputs : Do("Validate", [challenge |-> c])

DoIsChallengeEnabled ==
    /\ state = "ready"
    /\ \E c \in ChallengeInputs : Do("IsChallengeEnabled", [challenge |-> c])

DoAuthorizeOrderIdentifier ==
    /\ state = "ready"
    /\ \E id \in Identifiers : Do("AuthorizeOrderIdentifier", [identifier |-> id])

DoAuthorizeSign ==
    /\ state = "ready"
    /\ \E t \in Tokens : Do("AuthorizeSign", [token |-> t])

DoAuthorizeRevoke ==
    /\ state = "ready"
    /\ \E t \in Tokens : Do("AuthorizeRevoke", [token |-> t])

DoAuthorizeRenew ==
    /\ state = "ready"
    /\ \E c \in Certs : Do("AuthorizeRenew", [cert |-> c])

DoGetID == state = "ready" /\ Do("GetID", NoArg)
DoGetName == state = "ready" /\ Do("GetName", NoArg)
DoGetType == state = "ready" /\ Do("GetType", NoArg)
DoGetOptions == state = "ready" /\ Do("GetOptions", NoArg)
DoDefaultTLSCertDuration == state = "ready" /\ Do("DefaultTLSCertDuration", NoArg)

Next ==
    \/ \E config \in Configs : DoInit(config)
    \/ DoValidate
    \/ DoIsChallengeEnabled
    \/ DoAuthorizeOrderIdentifier
    \/ DoAuthorizeSign
    \/ DoAuthorizeRevoke
    \/ DoAuthorizeRenew
    \/ DoGetID
    \/ DoGetName
    \/ DoGetType
    \/ DoGetOptions
    \/ DoDefaultTLSCertDuration

Spec == Init /\ [][Next]_vars

(***************************************************************************)
(* Concurrent requests: each handler invokes a method, the method runs,    *)
(* and the handler may then invoke another, interleaved with the others.   *)
(***************************************************************************)
Requests ==
    ({"IsChallengeEnabled"} \X {[challenge |-> Upper(DNS_01)]})
        \cup ({"AuthorizeOrderIdentifier"}
                \X {[identifier |-> [Type |-> DNS, Value |-> "example.com"]]})
        \cup ({"AuthorizeSign", "AuthorizeRevoke"} \X {[token |-> "token"]})
        \cup ({"AuthorizeRenew"} \X {[cert |-> "cert1"]})
        \cup ({"GetID", "GetName", "GetType", "GetOptions", "DefaultTLSCertDuration"}
                \X {NoArg})

InitConc ==
    /\ p \in LoadedForRequests
    /\ InitCommon

Invoke(i) ==
    /\ state = "ready"
    /\ calls[i].status # "pending"
    /\ \E r \in Requests :
        calls' = [calls EXCEPT ![i] = [status |-> "pending", op |-> r[1], arg |-> r[2]]]
    /\ UNCHANGED <<p, state, initErr, built, snapshot, res>>

Run(i) ==
    /\ calls[i].status = "pending"
    /\ LET c == Exec(calls[i].op, calls[i].arg, p)
       IN  /\ p' = c.p
           /\ calls' = [calls EXCEPT ![i] =
                          [status |-> "done", op |-> calls[i].op,
                           arg |-> calls[i].arg, ret |-> c.ret]]
    /\ UNCHANGED <<state, initErr, built, snapshot, res>>

NextConc ==
    \/ \E config \in Configs : DoInit(config)
    \/ \E i \in Procs : Invoke(i)
    \/ \E i \in Procs : Run(i)

SpecConc == InitConc /\ [][NextConc]_vars

(***************************************************************************)
(* Notions the properties are stated in.                                   *)
(***************************************************************************)
Range(f) == {f[i] : i \in DOMAIN f}

\* Unicode simple case folding (CaseFolding.txt, statuses C and S).
CaseFold(r) ==
    IF IsUpperASCII(r) THEN r + 32
    ELSE IF r = LongS THEN 115
    ELSE IF r = KelvinK THEN 107
    ELSE r

\* s and t are equal up to case: rune by rune, their case foldings agree.
CaseInsensitiveEqual(s, t) ==
    /\ Len(s) = Len(t)
    /\ \A i \in 1..Len(s) : CaseFold(s[i]) = CaseFold(t[i])

\* s and t have the same normalized (lower-case) spelling.
SameLowerCase(s, t) ==
    /\ Len(s) = Len(t)
    /\ \A i \in 1..Len(s) : ToLowerRune(s[i]) = ToLowerRune(t[i])

Returned(op) == res.op = op

IsModifier(o) ==
    o.opt \in {"provisionerExtensionOption", "forceCNOption", "profileDefaultDuration"}
IsValidator(o) ==
    o.opt \in {"defaultPublicKeyValidator", "validityValidator", "x509NamePolicyValidator"}

\* The six constraints of the chain, in order, for the served provisioner.
SixConstraints ==
    << [opt |-> "provisionerExtensionOption", Type |-> "ACME", Name |-> p.Name,
        CredentialID |-> ""],
       [opt |-> "forceCNOption", ForceCN |-> p.ForceCN],
       [opt |-> "profileDefaultDuration", def |-> p.ctl.Claimer.def],
       [opt |-> "defaultPublicKeyValidator"],
       [opt |-> "validityValidator", min |-> p.ctl.Claimer.min,
        max |-> p.ctl.Claimer.max],
       [opt |-> "x509NamePolicyValidator", policyEngine |-> p.ctl.x509] >>

(***************************************************************************)
(* C1 as stated: AuthorizeSign returns a nil error and a chain of exactly  *)
(* six elements, the six constraints in their fixed order.                 *)
(***************************************************************************)
C1_ExactlySixOptions ==
    Returned("AuthorizeSign") =>
        /\ res.ret.err = Nil
        /\ Len(res.ret.opts) = 6
        /\ res.ret.opts = SixConstraints

(***************************************************************************)
(* C1 amended: AuthorizeSign returns a nil error and a chain of exactly    *)
(* seven elements: the provisioner itself, then the six constraints in     *)
(* their fixed order.                                                      *)
(***************************************************************************)
C1_ProvisionerThenSixOptions ==
    Returned("AuthorizeSign") =>
        /\ res.ret.err = Nil
        /\ Len(res.ret.opts) = 7
        /\ res.ret.opts[1].opt = "provisioner"
        /\ SubSeq(res.ret.opts, 2, 7) = SixConstraints

C1_Witness ==
    /\ Returned("AuthorizeSign")
    /\ res.arg.token = "token"
    /\ p.ForceCN
    /\ p.ctl.x509 = DenyDNSGate
    /\ Len(res.ret.opts) = 7

(***************************************************************************)
(* C2 as stated: an identifier whose Type is neither ip nor dns always     *)
(* gets the invalid-identifier-type error naming the type, whether no      *)
(* policy, an allowing policy or a denying policy is configured.           *)
(***************************************************************************)
C2_UnknownTypeAlwaysRejected ==
    (Returned("AuthorizeOrderIdentifier") /\ res.arg.identifier.Type \notin {"ip", "dns"}) =>
        res.ret = [msg |-> "invalid ACME identifier type provided",
                   type |-> res.arg.identifier.Type]

(***************************************************************************)
(* C2 amended: an identifier whose Type is neither ip nor dns gets the     *)
(* invalid-identifier-type error naming the type whenever an X.509 policy  *)
(* is configured, allowing or denying; with no X.509 policy configured it  *)
(* gets nil.                                                               *)
(***************************************************************************)
C2_UnknownTypeRejectedUnderPolicy ==
    (Returned("AuthorizeOrderIdentifier") /\ res.arg.identifier.Type \notin {"ip", "dns"}) =>
        IF p.ctl.x509 = Nil
        THEN res.ret = Nil
        ELSE res.ret = [msg |-> "invalid ACME identifier type provided",
                        type |-> res.arg.identifier.Type]

C2_Witness ==
    /\ Returned("AuthorizeOrderIdentifier")
    /\ res.arg.identifier.Type = "unknown"
    /\ p.ctl.x509 = AllowGate
    /\ res.ret # Nil

(***************************************************************************)
(* C3: with no X.509 policy configured, AuthorizeOrderIdentifier returns   *)
(* nil for every identifier, of any Type and any Value, also an ip         *)
(* identifier whose Value is no IP address.                                *)
(***************************************************************************)
C3_NoPolicyAllowsAll ==
    (Returned("AuthorizeOrderIdentifier") /\ p.ctl.x509 = Nil) => res.ret = Nil

C3_Witness ==
    /\ Returned("AuthorizeOrderIdentifier")
    /\ p.ctl.x509 = Nil
    /\ res.arg.identifier = [Type |-> "ip", Value |-> "300.0.0.1"]
    /\ res.ret = Nil

(***************************************************************************)
(* C4: IsChallengeEnabled(challenge) is true iff challenge equals, up to   *)
(* case, a member of the effective set: the configured list when it is     *)
(* non-empty, else {http-01, dns-01, tls-alpn-01}.  With an empty list     *)
(* device-attest-01 is disabled; with the list [device-attest-01] only     *)
(* device-attest-01 is enabled.                                            *)
(***************************************************************************)
EffectiveSet ==
    IF p.Challenges # << >>
    THEN Range(p.Challenges)
    ELSE {HTTP_01, DNS_01, TLS_ALPN_01}

C4_EnabledIffInEffectiveSet ==
    Returned("IsChallengeEnabled") =>
        /\ res.ret.bool = (\E m \in EffectiveSet : CaseInsensitiveEqual(m, res.arg.challenge))
        /\ (p.Challenges = << >> /\ res.arg.challenge \in Kinds) =>
                (res.ret.bool = (res.arg.challenge # DEVICE_ATTEST_01))
        /\ (p.Challenges = <<DEVICE_ATTEST_01>> /\ res.arg.challenge \in Kinds) =>
                (res.ret.bool = (res.arg.challenge = DEVICE_ATTEST_01))

C4_Witness ==
    /\ Returned("IsChallengeEnabled")
    /\ p.Challenges = <<DEVICE_ATTEST_01>>
    /\ res.arg.challenge = HTTP_01
    /\ res.ret.bool = FALSE

(***************************************************************************)
(* C5: Init fails with a configuration error when Type or Name is empty;   *)
(* otherwise it fails at the first entry of Challenges that does not       *)
(* validate, with the unsupported-challenge error naming that entry; in    *)
(* these failures no controller is constructed and the controller          *)
(* reference stays as it was.  Only when the checks pass is the controller *)
(* constructed and stored, and DefaultTLSCertDuration then returns the     *)
(* controller's default TLS duration.                                      *)
(***************************************************************************)
Supported(c) == \E k \in Kinds : SameLowerCase(c, k)

C7_PolicyVerdictForOwnKind ==
    (Returned("AuthorizeOrderIdentifier") /\ p.ctl.x509 # Nil) =>
        /\ res.arg.identifier.Type = "ip" =>
            /\ (res.ret = Nil) = (ParseIP(res.arg.identifier.Value) \in p.ctl.x509.allowIPs)
            /\ res.ret # Nil => res.ret = PolicyDenied(ParseIP(res.arg.identifier.Value))
        /\ res.arg.identifier.Type = "dns" =>
            /\ (res.ret = Nil) = (res.arg.identifier.Value \in p.ctl.x509.allowDNS)
            /\ res.ret # Nil => res.ret = PolicyDenied(res.arg.identifier.Value)
        /\ (res.arg.identifier.Type = "ip" /\ res.arg.identifier.Value \in {"300.0.0.1", "example.com"}) =>
                res.ret = PolicyDenied(NilIP)

C7_Witness ==
    /\ Returned("AuthorizeOrderIdentifier")
    /\ p.ctl.x509 = DenyDNSGate
    /\ res.arg.identifier = [Type |-> "dns", Value |-> "example.com"]
    /\ res.ret = PolicyDenied("example.com")

(***************************************************************************)
(* C8: after a successful Init, no interleaving of concurrent calls of     *)
(* IsChallengeEnabled, AuthorizeOrderIdentifier, AuthorizeSign,            *)
(* AuthorizeRevoke, AuthorizeRenew and the accessors changes a field of    *)
(* the provisioner, and each call returns what it returns when run alone   *)
(* on the provisioner Init left.                                           *)
(***************************************************************************)
C8_ImmutableAfterInit ==
    state = "ready" =>
        /\ p = snapshot
        /\ \A i \in Procs :
            calls[i].status = "done" =>
                calls[i].ret = Exec(calls[i].op, calls[i].arg, snapshot).ret

C8_Witness ==
    /\ state = "ready"
    /\ p.Challenges = << >>
    /\ calls[1].status = "done" /\ calls[1].op = "IsChallengeEnabled"
    /\ calls[2].status = "done" /\ calls[2].op = "AuthorizeSign"

(***************************************************************************)
(* C9: in the chain AuthorizeSign returns, every modifier comes before     *)
(* every validator, and the default-duration modifier comes before the     *)
(* validity-duration validator.                                            *)
(***************************************************************************)
C9_ModifiersBeforeValidators ==
    Returned("AuthorizeSign") =>
        LET opts == res.ret.opts
            At(name) == {i \in 1..Len(opts) : opts[i].opt = name}
        IN  /\ \A i, j \in 1..Len(opts) :
                (IsModifier(opts[i]) /\ IsValidator(opts[j])) => i < j
            /\ \A name \in {"provisionerExtensionOption", "forceCNOption",
                            "profileDefaultDuration", "defaultPublicKeyValidator",
                            "validityValidator", "x509NamePolicyValidator"} :
                    Cardinality(At(name)) = 1
            /\ \A i \in At("profileDefaultDuration"), j \in At("validityValidator") :
                    i < j

C9_Witness ==
    /\ Returned("AuthorizeSign")
    /\ ~p.ForceCN
    /\ p.ctl.x509 = Nil
    /\ IsModifier(res.ret.opts[4])
    /\ IsValidator(res.ret.opts[5])

(***************************************************************************)
(* C10: after a successful Init, every challenge IsChallengeEnabled        *)
(* accepts is a supported one: if IsChallengeEnabled(c) is true then       *)
(* Validate(c) returns nil.                                                *)
(***************************************************************************)
C10_EnabledImpliesValid ==
    (state = "ready" /\ Returned("IsChallengeEnabled") /\ res.ret.bool) =>
        Validate(res.arg.challenge) = Nil

====
